---- MODULE Spec2Model ----
(***************************************************************************)
(* gha-debug: the SoftLock three-signal lock (pkg/softlock) and the        *)
(* FileFlag watch loop built on it (pkg/fileflag).                         *)
(*                                                                         *)
(* Every goroutine is a process with a call stack of code positions; one  *)
(* action is one statement of the Go source.  Taking the mutex is part of *)
(* the first statement it guards and dropping it part of the last, which  *)
(* keeps every interleaving of the guarded statements themselves.         *)
(* A Go channel that is only ever closed is modelled by the number of     *)
(* close() calls executed on it: a receive is ready when that number is   *)
(* positive, and a second close() is the run-time panic of Go.            *)
(***************************************************************************)
EXTENDS Naturals, Sequences, FiniteSets

\* ------------------------------------------------------------------ bounds
\* Number of goroutines that call the public methods concurrently.
NCallers == 2
\* Total number of SoftLock method calls the callers make in one run.
MaxCalls == 4
\* Total number of FileFlag method calls the callers make in one run.
MaxFlagCalls == 2
\* Number of steps the environment (file system, notification facility) takes.
MaxEnv == 2
\* Capacity of the notification queue; a notification that finds it full is lost.
MaxEvents == 1
\* Number of file notifications the command-line program receives.
MaxCliEvents == 3

\* ------------------------------------------------------------- the state
VARIABLES
    _started,   \* SoftLock._started
    closes,     \* per channel, how many close() calls were executed on it
    m,          \* SoftLock.m: the set of goroutines holding the mutex (0 or 1)
    stack,      \* per goroutine, its call stack of code positions, top first
    ret,        \* per goroutine, the value of the call that returned last
    last,       \* per goroutine, the method that returned last
    calls,      \* number of method calls made by the callers so far
    startWins,  \* number of Start() calls that returned true
    fileExists, \* whether the sentinel path exists
    statBroken, \* whether os.Stat of the path fails with another error
    events,     \* the notifications waiting in watcher.Events
    errors,     \* the number of errors waiting in watcher.Errors
    watcherClosed, \* whether watcher.Close() was called
    exited,     \* whether the process has exited (os.Exit)
    envSteps,   \* number of steps the environment has taken
    watchErr    \* Watch(): what its first os.Stat returned ("unset" before)

ffVars == <<fileExists, statBroken, events, errors, watcherClosed, exited, envSteps,
           watchErr>>
vars == <<_started, closes, m, stack, ret, last, calls, startWins, ffVars>>

\* The goroutine that runs FileFlag.Watch().
Watcher == 0
Callers == 1..NCallers
Procs == {Watcher} \cup Callers

\* SoftLock.started, SoftLock.wait, SoftLock.done.
LockChans == {"started", "wait", "done"}
\* FileFlag.watching
Chans == LockChans \cup {"watching"}

\* `select { case <-c: ... default: ... }` and `<-c` on a channel that is
\* never sent on: ready exactly when the channel was closed.
Closed(c) == closes[c] > 0

\* close(c) on a closed channel panics, and a panic no goroutine recovers
\* from ends the whole program.
Panicked == \E c \in Chans : closes[c] > 1
\* Nothing runs after a panic or after os.Exit.
Running == ~Panicked /\ ~exited

\* close(c)
CloseChan(c) == closes' = [closes EXCEPT ![c] = @ + 1]

\* --------------------------------------------------------- control flow
At(p, l) == stack[p] # <<>> /\ Head(stack[p]) = l
Goto(p, l) == stack' = [stack EXCEPT ![p] = <<l>> \o Tail(@)]
\* Leave the current position for the positions ks, in that order: a call
\* of a method followed by the position after the call.
Call(p, ks) == stack' = [stack EXCEPT ![p] = ks \o Tail(@)]
\* Return value v from method fn.
Return(p, fn, v) ==
    /\ stack' = [stack EXCEPT ![p] = Tail(@)]
    /\ ret' = [ret EXCEPT ![p] = v]
    /\ last' = [last EXCEPT ![p] = fn]
\* Return value v from Start().
ReturnStart(p, v) ==
    /\ Return(p, "Start", v)
    /\ startWins' = IF v = "true" THEN startWins + 1 ELSE startWins
\* A statement that is not a return: the value returned to it before is
\* used by that statement at most, and is dead after it.
NoReturn(p) ==
    /\ ret' = [ret EXCEPT ![p] = "void"]
    /\ last' = [last EXCEPT ![p] = "none"]

\* l.m.Lock() ... l.m.Unlock(): Lock waits for the mutex to be free. A
\* method that unlocks in the statement that locked holds it in no state.
Lock(p) == m = {} /\ m' = {p}
Unlock(p) == m' = m \ {p}
LockUnlock(p) == m = {} /\ UNCHANGED m

Bool(b) == IF b THEN "true" ELSE "false"

\* The methods of SoftLock. A position is named after its method and
\* statement; the position of a method's first statement has the method's
\* name. l.m.Lock() is taken together with the statement after it, and
\* l.m.Unlock() with the statement before it: what lies between reads and
\* writes only what the mutex protects.

rest == <<calls, startWins, ffVars>>
lockVars == <<_started, closes, m>>

\* ------------------------------------------------------- SoftLock.Start
\* Start() as it would be if the loser returned l._started as the winner does.
StartSelectEcho(p) ==
    /\ Running /\ At(p, "Start")
    /\ IF Closed("started")
         THEN /\ LockUnlock(p) /\ ReturnStart(p, Bool(_started))
         ELSE /\ Lock(p) /\ Goto(p, "Start.close") /\ NoReturn(p)
              /\ UNCHANGED startWins
    /\ UNCHANGED <<_started, closes, calls, ffVars>>

\* Start() as it would be without l.m.Lock().
StartSelectNoLock(p) ==
    /\ Running /\ At(p, "Start")
    /\ IF Closed("started")
         THEN ReturnStart(p, "false")
         ELSE Goto(p, "Start.close") /\ NoReturn(p) /\ UNCHANGED startWins
    /\ UNCHANGED <<_started, closes, m, calls, ffVars>>

\* l.m.Lock(); select { case <-l.started: return false; default: ... }
StartSelect(p) ==
    /\ Running /\ At(p, "Start")
    /\ IF Closed("started")
         THEN /\ LockUnlock(p) /\ ReturnStart(p, "false")
         ELSE /\ Lock(p) /\ Goto(p, "Start.close") /\ NoReturn(p)
              /\ UNCHANGED startWins
    /\ UNCHANGED <<_started, closes, calls, ffVars>>

\* Start() as it would be if it dropped the mutex before `l._started = true`.
StartCloseUnlock(p) ==
    /\ Running /\ At(p, "Start.close")
    /\ CloseChan("started") /\ Goto(p, "Start.assign")
    /\ Unlock(p)
    /\ NoReturn(p) /\ UNCHANGED <<_started, rest>>

\* close(l.started)
StartClose(p) ==
    /\ Running /\ At(p, "Start.close")
    /\ CloseChan("started") /\ Goto(p, "Start.assign")
    /\ NoReturn(p) /\ UNCHANGED <<_started, m, rest>>

\* Start() as it would be without `l._started = true`.
StartAssignForgets(p) ==
    /\ Running /\ At(p, "Start.assign")
    /\ Unlock(p) /\ ReturnStart(p, "true")
    /\ UNCHANGED <<_started, closes, calls, ffVars>>

\* l._started = true; return l._started
StartAssign(p) ==
    /\ Running /\ At(p, "Start.assign")
    /\ _started' = TRUE
    /\ Unlock(p) /\ ReturnStart(p, Bool(_started'))
    /\ UNCHANGED <<closes, calls, ffVars>>

\* ----------------------------------------------------- SoftLock.Started
Started(p) ==
    /\ Running /\ At(p, "Started")
    /\ LockUnlock(p) /\ Return(p, "Started", Bool(_started))
    /\ UNCHANGED <<_started, closes, rest>>

\* ----------------------------------------------------- SoftLock.Release
\* Release() as it would be without `if !l._started { return }`.
ReleaseSelectUnguarded(p) ==
    /\ Running /\ At(p, "Release")
    /\ IF Closed("wait")
         THEN /\ LockUnlock(p) /\ Return(p, "Release", "void")
         ELSE /\ Lock(p) /\ Goto(p, "Release.close") /\ NoReturn(p)
    /\ UNCHANGED <<_started, closes, rest>>

\* Release() as it would be with the test inverted: `if l._started { return }`.
ReleaseSelectInverted(p) ==
    /\ Running /\ At(p, "Release")
    /\ IF _started \/ Closed("wait")
         THEN /\ LockUnlock(p) /\ Return(p, "Release", "void")
         ELSE /\ Lock(p) /\ Goto(p, "Release.close") /\ NoReturn(p)
    /\ UNCHANGED <<_started, closes, rest>>

\* l.m.Lock(); if !l._started { return }; select { case <-l.wait: default: ... }
ReleaseSelect(p) ==
    /\ Running /\ At(p, "Release")
    /\ IF ~_started \/ Closed("wait")
         THEN /\ LockUnlock(p) /\ Return(p, "Release", "void")
         ELSE /\ Lock(p) /\ Goto(p, "Release.close") /\ NoReturn(p)
    /\ UNCHANGED <<_started, closes, rest>>

\* close(l.wait)
ReleaseClose(p) ==
    /\ Running /\ At(p, "Release.close")
    /\ CloseChan("wait")
    /\ Unlock(p) /\ Return(p, "Release", "void")
    /\ UNCHANGED <<_started, rest>>

\* ---------------------------------------------------- SoftLock.Released
Released(p) ==
    /\ Running /\ At(p, "Released")
    /\ Return(p, "Released", Bool(Closed("wait")))
    /\ UNCHANGED <<_started, closes, m, rest>>

\* -------------------------------------------------------- SoftLock.Wait
\* Wait() as it would be without the passthrough (as in package main).
WaitCheckNoPassthrough(p) ==
    /\ Running /\ At(p, "Wait")
    /\ LockUnlock(p)
    /\ Goto(p, "Wait.select") /\ NoReturn(p)
    /\ UNCHANGED <<_started, closes, rest>>

\* Wait() as it would be if it kept the mutex while it waits.
WaitCheckHoldsLock(p) ==
    /\ Running /\ At(p, "Wait")
    /\ IF ~_started
         THEN LockUnlock(p) /\ Return(p, "Wait", "passthrough")
         ELSE Lock(p) /\ Goto(p, "Wait.select") /\ NoReturn(p)
    /\ UNCHANGED <<_started, closes, rest>>

\* l.m.Lock(); if !l._started { defer l.m.Unlock(); return }; l.m.Unlock()
\* The passthrough: an un-started lock is not waited on.
WaitCheck(p) ==
    /\ Running /\ At(p, "Wait")
    /\ LockUnlock(p)
    /\ IF ~_started
         THEN Return(p, "Wait", "passthrough")
         ELSE Goto(p, "Wait.select") /\ NoReturn(p)
    /\ UNCHANGED <<_started, closes, rest>>

\* Wait() as it would be with the select alone, without `<-l.wait`.
WaitSelectNoBlock(p) ==
    /\ Running /\ At(p, "Wait.select")
    /\ Return(p, "Wait", "released")
    /\ UNCHANGED <<_started, closes, m, rest>>

\* select { case <-l.wait: default: ... }
WaitSelect(p) ==
    /\ Running /\ At(p, "Wait.select")
    /\ IF Closed("wait")
         THEN Return(p, "Wait", "released")
         ELSE Goto(p, "Wait.recv") /\ NoReturn(p)
    /\ UNCHANGED <<_started, closes, m, rest>>

\* Wait() as it would be if it received from l.done instead of l.wait.
WaitRecvWrongChan(p) ==
    /\ Running /\ At(p, "Wait.recv")
    /\ Closed("done")
    /\ Return(p, "Wait", "woken")
    /\ UNCHANGED <<_started, closes, m, rest>>

\* Wait() as it would be if it received from l.started instead of l.wait.
WaitRecvOnStarted(p) ==
    /\ Running /\ At(p, "Wait.recv")
    /\ Closed("started")
    /\ Return(p, "Wait", "woken")
    /\ UNCHANGED <<_started, closes, m, rest>>

\* <-l.wait
WaitRecv(p) ==
    /\ Running /\ At(p, "Wait.recv")
    /\ Closed("wait")
    /\ Return(p, "Wait", "woken")
    /\ UNCHANGED <<_started, closes, m, rest>>

\* -------------------------------------------------------- SoftLock.Done
\* l.m.Lock(); select { case <-l.done: default: ... }
DoneSelect(p) ==
    /\ Running /\ At(p, "Done")
    /\ IF Closed("done")
         THEN /\ LockUnlock(p) /\ Return(p, "Done", "void")
         ELSE /\ Lock(p) /\ Goto(p, "Done.close") /\ NoReturn(p)
    /\ UNCHANGED <<_started, closes, rest>>

\* Done() as it would be if it also marked the lock as not started.
DoneCloseReset(p) ==
    /\ Running /\ At(p, "Done.close")
    /\ CloseChan("done")
    /\ _started' = FALSE
    /\ Unlock(p) /\ Return(p, "Done", "void")
    /\ UNCHANGED rest

\* close(l.done)
DoneClose(p) ==
    /\ Running /\ At(p, "Done.close")
    /\ CloseChan("done")
    /\ Unlock(p) /\ Return(p, "Done", "void")
    /\ UNCHANGED <<_started, rest>>

\* ---------------------------------------------------- SoftLock.Finished
Finished(p) ==
    /\ Running /\ At(p, "Finished")
    /\ Return(p, "Finished", Bool(Closed("done")))
    /\ UNCHANGED <<_started, closes, m, rest>>

\* ------------------------------------------------------- SoftLock.Close
\* Close() as it would be without l.Release().
CloseNoRelease == <<"Start", "Done", "Close.return">>

\* Close() as it would be without l.Done().
CloseNoDone == <<"Start", "Release", "Close.return">>

\* l.Start(); l.Release(); l.Done()
Close == <<"Start", "Release", "Done", "Close.return">>

CloseReturn(p) ==
    /\ Running /\ At(p, "Close.return")
    /\ Return(p, "Close", "void")
    /\ UNCHANGED <<_started, closes, m, rest>>

\* ------------------------------------------------- SoftLock.WaitForDone
\* WaitForDone() as it would be with the passthrough of Wait().
WaitForDonePassthrough(p) ==
    /\ Running /\ At(p, "WaitForDone")
    /\ ~_started \/ Closed("done")
    /\ Return(p, "WaitForDone", "void")
    /\ UNCHANGED <<_started, closes, m, rest>>

\* <-l.done
WaitForDone(p) ==
    /\ Running /\ At(p, "WaitForDone")
    /\ Closed("done")
    /\ Return(p, "WaitForDone", "void")
    /\ UNCHANGED <<_started, closes, m, rest>>

\* ------------------------------------------------ SoftLock.WaitForStart
\* l.m.Lock(); if l._started { defer l.m.Unlock(); return }; l.m.Unlock()
WaitForStartCheck(p) ==
    /\ Running /\ At(p, "WaitForStart")
    /\ LockUnlock(p)
    /\ IF _started
         THEN Return(p, "WaitForStart", "passthrough")
         ELSE Goto(p, "WaitForStart.recv") /\ NoReturn(p)
    /\ UNCHANGED <<_started, closes, rest>>

\* <-l.started
WaitForStartRecv(p) ==
    /\ Running /\ At(p, "WaitForStart.recv")
    /\ Closed("started")
    /\ Return(p, "WaitForStart", "woken")
    /\ UNCHANGED <<_started, closes, m, rest>>

\* One statement of a SoftLock query that only its direct callers use.
QueryStep(p) ==
    \/ Released(p)
    \/ Finished(p)

\* One statement of any other SoftLock method, by goroutine p.
LockStep(p) ==
    \/ StartSelect(p) \/ StartClose(p) \/ StartAssign(p)
    \/ Started(p)
    \/ ReleaseSelect(p) \/ ReleaseClose(p)
    \/ WaitCheck(p) \/ WaitSelect(p) \/ WaitRecv(p)
    \/ DoneSelect(p) \/ DoneClose(p)
    \/ CloseReturn(p)
    \/ WaitForDone(p)
    \/ WaitForStartCheck(p) \/ WaitForStartRecv(p)

\* ------------------------------------------------------ the environment
\* os.Stat(ff.filename): nil, ErrNotExist or another error.
Stat == IF statBroken THEN "error" ELSE IF fileExists THEN "nil" ELSE "notexist"

Event(name, op) == [name |-> name, op |-> op]

\* The notification facility queues an event, or loses it (deliver = FALSE,
\* the watcher closed, or the queue full).
Notify(e, deliver) ==
    events' = IF deliver /\ ~watcherClosed /\ Len(events) < MaxEvents
                THEN Append(events, e) ELSE events

\* Another process creates the sentinel file.
Touch(deliver) ==
    /\ envSteps < MaxEnv /\ ~fileExists
    /\ fileExists' = TRUE
    /\ Notify(Event("flag", "Create"), deliver)
    /\ envSteps' = envSteps + 1
    /\ UNCHANGED <<_started, closes, m, stack, ret, last, calls, startWins,
                   statBroken, errors, watcherClosed, exited, watchErr>>

\* Another process removes the sentinel file.
Remove(deliver) ==
    /\ envSteps < MaxEnv /\ fileExists
    /\ fileExists' = FALSE
    /\ Notify(Event("flag", "Remove"), deliver)
    /\ envSteps' = envSteps + 1
    /\ UNCHANGED <<_started, closes, m, stack, ret, last, calls, startWins,
                   statBroken, errors, watcherClosed, exited, watchErr>>

\* A notification that is not a creation or removal of the sentinel file:
\* another file of the directory, or a write to the sentinel file.
OtherEvents ==
    {Event("other", "Create"), Event("other", "Remove"), Event("flag", "Write")}

Unrelated(e) ==
    /\ envSteps < MaxEnv /\ ~watcherClosed /\ Len(events) < MaxEvents
    /\ events' = Append(events, e)
    /\ envSteps' = envSteps + 1
    /\ UNCHANGED <<_started, closes, m, stack, ret, last, calls, startWins,
                   fileExists, statBroken, errors, watcherClosed, exited, watchErr>>

\* The notification facility reports an error on watcher.Errors.
WatcherFails ==
    /\ envSteps < MaxEnv /\ ~watcherClosed /\ errors = 0
    /\ errors' = 1
    /\ envSteps' = envSteps + 1
    /\ UNCHANGED <<_started, closes, m, stack, ret, last, calls, startWins,
                   fileExists, statBroken, events, watcherClosed, exited, watchErr>>

\* os.Stat of the path starts failing with an error other than ErrNotExist.
StatBreaks ==
    /\ envSteps < MaxEnv /\ ~statBroken
    /\ statBroken' = TRUE
    /\ envSteps' = envSteps + 1
    /\ UNCHANGED <<_started, closes, m, stack, ret, last, calls, startWins,
                   fileExists, events, errors, watcherClosed, exited, watchErr>>

EnvStep ==
    \/ \E d \in BOOLEAN : Touch(d)
    \/ \E d \in BOOLEAN : Remove(d)
    \/ \E e \in OtherEvents : Unrelated(e)
    \/ WatcherFails
    \/ StatBreaks

\* -------------------------------------------------------- FileFlag.Watch
\* `go ff.Watch()`: the loop runs once per FileFlag.
WatchGo(p) ==
    /\ Running /\ stack[p] = <<>> /\ last[p] = "none"
    /\ stack' = [stack EXCEPT ![p] = <<"Watch">>]
    /\ NoReturn(p) /\ UNCHANGED <<lockVars, rest>>

\* Watch() as it would be if it did not start the lock for a file that is
\* there already.
WatchStatNoStart(p) ==
    /\ Running /\ At(p, "Watch")
    /\ CASE Stat = "notexist" -> Goto(p, "Watch.signal") /\ NoReturn(p)
         [] Stat = "error" -> Return(p, "Watch", "stat-error")
         [] Stat = "nil" -> Goto(p, "Watch.signal") /\ NoReturn(p)
    /\ watchErr' = Stat
    /\ UNCHANGED <<lockVars, calls, startWins, fileExists, statBroken, events,
                   errors, watcherClosed, exited, envSteps>>

\* if _, err := os.Stat(ff.filename); ... { ff.lock.Start() }
WatchStat(p) ==
    /\ Running /\ At(p, "Watch")
    /\ CASE Stat = "notexist" -> Goto(p, "Watch.signal") /\ NoReturn(p)
         [] Stat = "error" -> Return(p, "Watch", "stat-error")
         [] Stat = "nil" -> Call(p, <<"Start", "Watch.signal">>) /\ NoReturn(p)
    /\ watchErr' = Stat
    /\ UNCHANGED <<lockVars, calls, startWins, fileExists, statBroken, events,
                   errors, watcherClosed, exited, envSteps>>

\* select { case <-ff.watching: default: ... }
WatchSignalSelect(p) ==
    /\ Running /\ At(p, "Watch.signal")
    /\ IF Closed("watching")
         THEN Goto(p, "Watch.select")
         ELSE Goto(p, "Watch.signal.close")
    /\ NoReturn(p) /\ UNCHANGED <<lockVars, rest>>

\* Watch() as it would be without close(ff.watching).
WatchSignalCloseSkip(p) ==
    /\ Running /\ At(p, "Watch.signal.close")
    /\ Goto(p, "Watch.select")
    /\ NoReturn(p) /\ UNCHANGED <<lockVars, rest>>

\* close(ff.watching)
WatchSignalClose(p) ==
    /\ Running /\ At(p, "Watch.signal.close")
    /\ CloseChan("watching") /\ Goto(p, "Watch.select")
    /\ NoReturn(p) /\ UNCHANGED <<_started, m, rest>>

\* The event branch as it is in pkg/fileflag: `continue` after Release().
WatchEventRemoveContinues(p) ==
    /\ Running /\ At(p, "Watch.select")
    /\ events # <<>> \/ watcherClosed
    /\ IF events = <<>>
         THEN Return(p, "Watch", "closed") /\ UNCHANGED events
         ELSE /\ events' = Tail(events)
              /\ NoReturn(p)
              /\ LET e == Head(events) IN
                 CASE e.name # "flag" -> UNCHANGED stack
                   [] e.name = "flag" /\ e.op = "Create" ->
                        Call(p, <<"Start", "Watch.select">>)
                   [] e.name = "flag" /\ e.op = "Remove" ->
                        Call(p, <<"Release", "Watch.select">>)
                   [] OTHER -> UNCHANGED stack
    /\ UNCHANGED <<lockVars, calls, startWins, fileExists, statBroken,
                   errors, watcherClosed, exited, envSteps, watchErr>>

\* The event branch as it would be without `if event.Name != ff.filename`.
WatchEventNoFilter(p) ==
    /\ Running /\ At(p, "Watch.select")
    /\ events # <<>> \/ watcherClosed
    /\ IF events = <<>>
         THEN Return(p, "Watch", "closed") /\ UNCHANGED events
         ELSE /\ events' = Tail(events)
              /\ NoReturn(p)
              /\ LET e == Head(events) IN
                 CASE e.op = "Create" -> Call(p, <<"Start", "Watch.select">>)
                   [] e.op = "Remove" -> Call(p, <<"Release", "Watch.return">>)
                   [] OTHER -> UNCHANGED stack
    /\ UNCHANGED <<lockVars, calls, startWins, fileExists, statBroken,
                   errors, watcherClosed, exited, envSteps, watchErr>>

\* case event, ok := <-ff.watcher.Events
WatchEvent(p) ==
    /\ Running /\ At(p, "Watch.select")
    /\ events # <<>> \/ watcherClosed
    /\ IF events = <<>>
         THEN Return(p, "Watch", "closed") /\ UNCHANGED events
         ELSE /\ events' = Tail(events)
              /\ NoReturn(p)
              /\ LET e == Head(events) IN
                 CASE e.name # "flag" -> UNCHANGED stack
                   [] e.name = "flag" /\ e.op = "Create" ->
                        Call(p, <<"Start", "Watch.select">>)
                   [] e.name = "flag" /\ e.op = "Remove" ->
                        Call(p, <<"Release", "Watch.return">>)
                   [] OTHER -> UNCHANGED stack
    /\ UNCHANGED <<lockVars, calls, startWins, fileExists, statBroken,
                   errors, watcherClosed, exited, envSteps, watchErr>>

\* case err, ok := <-ff.watcher.Errors: `defer ff.Close()` and then
\* log.Fatal, which exits the process without running deferred calls.
WatchError(p) ==
    /\ Running /\ At(p, "Watch.select")
    /\ errors > 0 \/ watcherClosed
    /\ IF errors = 0
         THEN Return(p, "Watch", "closed") /\ UNCHANGED <<errors, exited>>
         ELSE /\ errors' = errors - 1 /\ exited' = TRUE
              /\ UNCHANGED stack /\ NoReturn(p)
    /\ UNCHANGED <<lockVars, calls, startWins, fileExists, statBroken,
                   events, watcherClosed, envSteps, watchErr>>

\* case <-time.After(200 * time.Millisecond): nothing else became ready.
\* if !ff.lock.Started() { log.Warn(...) }
WatchTimeout(p) ==
    /\ Running /\ At(p, "Watch.select")
    /\ events = <<>> /\ errors = 0 /\ ~watcherClosed
    /\ Call(p, <<"Started", "Watch.timeout.stat">>)
    /\ NoReturn(p) /\ UNCHANGED <<lockVars, rest>>

\* The timeout branch as it would be if it only released, never started.
WatchTimeoutStatNoStart(p) ==
    /\ Running /\ At(p, "Watch.timeout.stat")
    /\ CASE Stat = "nil" -> Goto(p, "Watch.select") /\ NoReturn(p)
         [] Stat = "notexist" ->
              Call(p, <<"Started", "Watch.timeout.started">>) /\ NoReturn(p)
         [] Stat = "error" -> Return(p, "Watch", "stat-error")
    /\ UNCHANGED <<lockVars, rest>>

\* The timeout branch as it would be if it took every error of os.Stat
\* for "does not exist".
WatchTimeoutStatErrorAsAbsent(p) ==
    /\ Running /\ At(p, "Watch.timeout.stat")
    /\ CASE Stat = "nil" -> Call(p, <<"Start", "Watch.select">>)
         [] OTHER -> Call(p, <<"Started", "Watch.timeout.started">>)
    /\ NoReturn(p) /\ UNCHANGED <<lockVars, rest>>

\* _, err := os.Stat(ff.filename); if err == nil ...
\* else if os.IsNotExist(err) ... else ...
WatchTimeoutStat(p) ==
    /\ Running /\ At(p, "Watch.timeout.stat")
    /\ CASE Stat = "nil" -> Call(p, <<"Start", "Watch.select">>) /\ NoReturn(p)
         [] Stat = "notexist" ->
              Call(p, <<"Started", "Watch.timeout.started">>) /\ NoReturn(p)
         [] Stat = "error" -> Return(p, "Watch", "stat-error")
    /\ UNCHANGED <<lockVars, rest>>

\* The timeout branch as it would be with `if !ff.lock.Started()`.
WatchTimeoutStartedInverted(p) ==
    /\ Running /\ At(p, "Watch.timeout.started")
    /\ IF ret[p] = "false"
         THEN Call(p, <<"Release", "Watch.timeout.return">>)
         ELSE Goto(p, "Watch.select")
    /\ NoReturn(p) /\ UNCHANGED <<lockVars, rest>>

\* if ff.lock.Started() { ff.lock.Release(); return }
WatchTimeoutStarted(p) ==
    /\ Running /\ At(p, "Watch.timeout.started")
    /\ IF ret[p] = "true"
         THEN Call(p, <<"Release", "Watch.timeout.return">>)
         ELSE Goto(p, "Watch.select")
    /\ NoReturn(p) /\ UNCHANGED <<lockVars, rest>>

\* `return` after ff.lock.Release() in the event branch
WatchReturn(p) ==
    /\ Running /\ At(p, "Watch.return")
    /\ Return(p, "Watch", "removed")
    /\ UNCHANGED <<lockVars, rest>>

\* The timeout branch as it would be if it closed the lock after releasing.
WatchTimeoutReturnCloses(p) ==
    /\ Running /\ At(p, "Watch.timeout.return")
    /\ IF Closed("done")
         THEN Return(p, "Watch", "reconciled")
         ELSE Call(p, <<"Done", "Watch.timeout.return">>) /\ NoReturn(p)
    /\ UNCHANGED <<lockVars, rest>>

\* `return` after ff.lock.Release() in the timeout branch
WatchTimeoutReturn(p) ==
    /\ Running /\ At(p, "Watch.timeout.return")
    /\ Return(p, "Watch", "reconciled")
    /\ UNCHANGED <<lockVars, rest>>

Watch(p) ==
    \/ WatchGo(p) \/ WatchStat(p) \/ WatchSignalSelect(p) \/ WatchSignalClose(p)
    \/ WatchEvent(p) \/ WatchError(p)
    \/ WatchTimeout(p) \/ WatchTimeoutStat(p) \/ WatchTimeoutStarted(p)
    \/ WatchReturn(p) \/ WatchTimeoutReturn(p)

\* -------------------------------------------------- FileFlag.WaitForWatch
\* select { case <-ff.watching: default: ... }
FlagWaitForWatchSelect(p) ==
    /\ Running /\ At(p, "FF.WaitForWatch")
    /\ IF Closed("watching")
         THEN Return(p, "FF.WaitForWatch", "passthrough")
         ELSE Goto(p, "FF.WaitForWatch.recv") /\ NoReturn(p)
    /\ UNCHANGED <<lockVars, rest>>

\* WaitForWatch() as it would be without `<-ff.watching`.
FlagWaitForWatchRecvNoBlock(p) ==
    /\ Running /\ At(p, "FF.WaitForWatch.recv")
    /\ Return(p, "FF.WaitForWatch", "woken")
    /\ UNCHANGED <<lockVars, rest>>

\* <-ff.watching
FlagWaitForWatchRecv(p) ==
    /\ Running /\ At(p, "FF.WaitForWatch.recv")
    /\ Closed("watching")
    /\ Return(p, "FF.WaitForWatch", "woken")
    /\ UNCHANGED <<lockVars, rest>>

\* -------------------------------------------------- FileFlag.WaitForStart
\* WaitForStart() as it would be without ff.WaitForWatch().
FlagWaitForStartNoWatch == <<"Started", "FF.WaitForStart.if">>

\* ff.WaitForWatch(); if ff.lock.Started() { return }; ff.lock.WaitForStart()
FlagWaitForStart == <<"FF.WaitForWatch", "Started", "FF.WaitForStart.if">>

FlagWaitForStartIf(p) ==
    /\ Running /\ At(p, "FF.WaitForStart.if")
    /\ IF ret[p] = "true"
         THEN Return(p, "FF.WaitForStart", "passthrough")
         ELSE Call(p, <<"WaitForStart", "FF.WaitForStart.return">>) /\ NoReturn(p)
    /\ UNCHANGED <<lockVars, rest>>

FlagWaitForStartReturn(p) ==
    /\ Running /\ At(p, "FF.WaitForStart.return")
    /\ Return(p, "FF.WaitForStart", "woken")
    /\ UNCHANGED <<lockVars, rest>>

\* ---------------------------------------------------------- FileFlag.Wait
\* Wait() as it is in pkg/fileflag: ff.lock.Wait() alone.
FlagWaitNoStart == <<"Wait", "FF.Wait.return">>

\* ff.WaitForStart(); ff.lock.Wait()
FlagWait == FlagWaitForStart \o <<"Wait", "FF.Wait.return">>

\* ret keeps the path ff.lock.Wait() took.
FlagWaitReturn(p) ==
    /\ Running /\ At(p, "FF.Wait.return")
    /\ Return(p, "FF.Wait", ret[p])
    /\ UNCHANGED <<lockVars, rest>>

\* --------------------------------------------------- FileFlag.WaitForDone
\* ff.lock.WaitForDone()
FlagWaitForDone == <<"WaitForDone", "FF.WaitForDone.return">>

FlagWaitForDoneReturn(p) ==
    /\ Running /\ At(p, "FF.WaitForDone.return")
    /\ Return(p, "FF.WaitForDone", "void")
    /\ UNCHANGED <<lockVars, rest>>

\* --------------------------------------------------------- FileFlag.Close
\* Close() as it would be without `defer ff.lock.Close()`.
FlagCloseSelectNoLock(p) ==
    /\ Running /\ At(p, "FF.Close")
    /\ IF Closed("watching")
         THEN Call(p, <<"FF.Close.watcher">>)
         ELSE Call(p, <<"FF.Close.watcher", "FF.Close.watching">>)
    /\ NoReturn(p) /\ UNCHANGED <<lockVars, rest>>

\* The select decides whether close(ff.watching) is deferred; the deferred
\* calls then run last registered first: ff.lock.Close(), ff.watcher.Close()
\* and, when deferred, close(ff.watching).
FlagCloseSelect(p) ==
    /\ Running /\ At(p, "FF.Close")
    /\ IF Closed("watching")
         THEN Call(p, Close \o <<"FF.Close.watcher">>)
         ELSE Call(p, Close \o <<"FF.Close.watcher", "FF.Close.watching">>)
    /\ NoReturn(p) /\ UNCHANGED <<lockVars, rest>>

\* Close() as it would be without `defer ff.watcher.Close()`.
FlagCloseWatcherSkip(p) ==
    /\ Running /\ At(p, "FF.Close.watcher")
    /\ IF Len(stack[p]) > 1 /\ stack[p][2] = "FF.Close.watching"
         THEN stack' = [stack EXCEPT ![p] = Tail(@)] /\ NoReturn(p)
         ELSE Return(p, "FF.Close", "void")
    /\ UNCHANGED <<lockVars, rest>>

\* ff.watcher.Close() closes watcher.Events and watcher.Errors.
FlagCloseWatcher(p) ==
    /\ Running /\ At(p, "FF.Close.watcher")
    /\ IF Len(stack[p]) > 1 /\ stack[p][2] = "FF.Close.watching"
         THEN stack' = [stack EXCEPT ![p] = Tail(@)] /\ NoReturn(p)
         ELSE Return(p, "FF.Close", "void")
    /\ watcherClosed' = TRUE /\ events' = <<>> /\ errors' = 0
    /\ UNCHANGED <<lockVars, calls, startWins, fileExists, statBroken,
                   exited, envSteps, watchErr>>

\* close(ff.watching), deferred
FlagCloseWatching(p) ==
    /\ Running /\ At(p, "FF.Close.watching")
    /\ CloseChan("watching")
    /\ Return(p, "FF.Close", "void")
    /\ UNCHANGED <<_started, m, rest>>

\* if ff == nil { return }: Close() called on a nil *FileFlag.
FlagCloseNil(p) ==
    /\ Running /\ At(p, "FF.Close.nil")
    /\ Return(p, "FF.Close", "nil")
    /\ UNCHANGED <<lockVars, rest>>

\* One statement of a FileFlag method other than Watch, by goroutine p.
FlagStep(p) ==
    \/ FlagWaitForWatchSelect(p) \/ FlagWaitForWatchRecv(p)
    \/ FlagWaitForStartIf(p) \/ FlagWaitForStartReturn(p)
    \/ FlagWaitReturn(p)
    \/ FlagWaitForDoneReturn(p)
    \/ FlagCloseSelect(p) \/ FlagCloseWatcher(p) \/ FlagCloseWatching(p)
    \/ FlagCloseNil(p)

\* ---------------------------------------------- SoftLock of package main
\* The SoftLock of package main has the three channels and the mutex, and
\* no _started field: its methods test l.started itself. Released(), Done(),
\* Finished() and WaitForDone() are the same statements as in pkg/softlock.

\* l.m.Lock(); select { case <-l.started: return false; default: ... }
MainStartSelect(p) ==
    /\ Running /\ At(p, "Main.Start")
    /\ IF Closed("started")
         THEN /\ LockUnlock(p) /\ Return(p, "Main.Start", "false")
         ELSE /\ Lock(p) /\ Goto(p, "Main.Start.close") /\ NoReturn(p)
    /\ UNCHANGED <<_started, closes, rest>>

\* close(l.started); return true
MainStartClose(p) ==
    /\ Running /\ At(p, "Main.Start.close")
    /\ CloseChan("started")
    /\ Unlock(p) /\ Return(p, "Main.Start", "true")
    /\ UNCHANGED <<_started, rest>>

\* select { case <-l.started: return true; default: return false }
MainStarted(p) ==
    /\ Running /\ At(p, "Main.Started")
    /\ Return(p, "Main.Started", Bool(Closed("started")))
    /\ UNCHANGED <<_started, closes, m, rest>>

\* Release() as it would be without the select on l.started.
MainReleaseSelectUnguarded(p) ==
    /\ Running /\ At(p, "Main.Release")
    /\ IF Closed("wait")
         THEN /\ LockUnlock(p) /\ Return(p, "Main.Release", "void")
         ELSE /\ Lock(p) /\ Goto(p, "Main.Release.close") /\ NoReturn(p)
    /\ UNCHANGED <<_started, closes, rest>>

\* l.m.Lock(); select { case <-l.started: select { case <-l.wait: default:
\* ... } default: }
MainReleaseSelect(p) ==
    /\ Running /\ At(p, "Main.Release")
    /\ IF ~Closed("started") \/ Closed("wait")
         THEN /\ LockUnlock(p) /\ Return(p, "Main.Release", "void")
         ELSE /\ Lock(p) /\ Goto(p, "Main.Release.close") /\ NoReturn(p)
    /\ UNCHANGED <<_started, closes, rest>>

\* close(l.wait)
MainReleaseClose(p) ==
    /\ Running /\ At(p, "Main.Release.close")
    /\ CloseChan("wait")
    /\ Unlock(p) /\ Return(p, "Main.Release", "void")
    /\ UNCHANGED <<_started, rest>>

\* select { case <-l.wait: default: ... }: no passthrough, no mutex
MainWaitSelect(p) ==
    /\ Running /\ At(p, "Main.Wait")
    /\ IF Closed("wait")
         THEN Return(p, "Main.Wait", "released")
         ELSE Goto(p, "Main.Wait.recv") /\ NoReturn(p)
    /\ UNCHANGED <<_started, closes, m, rest>>

\* <-l.wait
MainWaitRecv(p) ==
    /\ Running /\ At(p, "Main.Wait.recv")
    /\ Closed("wait")
    /\ Return(p, "Main.Wait", "woken")
    /\ UNCHANGED <<_started, closes, m, rest>>

\* Close(): l.Start(); l.Release(); l.Done()
MainClose == <<"Main.Start", "Main.Release", "Done", "Close.return">>

MainLockStep(p) ==
    \/ MainStartSelect(p) \/ MainStartClose(p)
    \/ MainStarted(p)
    \/ MainReleaseSelect(p) \/ MainReleaseClose(p)
    \/ Released(p)
    \/ MainWaitSelect(p) \/ MainWaitRecv(p)
    \/ DoneSelect(p) \/ DoneClose(p)
    \/ Finished(p)
    \/ CloseReturn(p)
    \/ WaitForDone(p)

\* ------------------------------------------- the command-line event loop
\* The goroutine of the event loop; the goroutines of Callers are free for
\* `go transaction.Monitor()`.
Loop == 0

\* The notifications of the watched directories: --start-file, --end-file
\* or another file, created, written or removed.
CliEvents ==
    {Event(n, o) : n \in {"start", "end", "other"},
                   o \in {"Create", "Write", "Remove"}}

\* The notification facility queues an event.
CliNotify(e) ==
    /\ Running
    /\ envSteps < MaxCliEvents /\ ~watcherClosed /\ Len(events) < MaxEvents
    /\ events' = Append(events, e)
    /\ envSteps' = envSteps + 1
    /\ UNCHANGED <<_started, closes, m, stack, ret, last, calls, startWins,
                   fileExists, statBroken, errors, watcherClosed, exited, watchErr>>

\* case event, ok := <-watcher.Events: an event that is neither a Create nor
\* a Write, or that names another file, is skipped; the start file calls
\* lock.Start(), the end file lock.Started().
CliLoopEvent(p) ==
    /\ Running /\ At(p, "Cli.select")
    /\ events # <<>> \/ watcherClosed
    /\ IF events = <<>>
         THEN Return(p, "Cli.loop", "closed") /\ UNCHANGED events
         ELSE /\ events' = Tail(events)
              /\ NoReturn(p)
              /\ LET e == Head(events) IN
                 CASE e.op \notin {"Create", "Write"} -> UNCHANGED stack
                   [] e.op \in {"Create", "Write"} /\ e.name = "start" ->
                        Call(p, <<"Main.Start", "Cli.start.if", "Cli.select">>)
                   [] e.op \in {"Create", "Write"} /\ e.name = "end" ->
                        Call(p, <<"Main.Started", "Cli.end.if">>)
                   [] OTHER -> UNCHANGED stack
    /\ UNCHANGED <<lockVars, calls, startWins, fileExists, statBroken,
                   errors, watcherClosed, exited, envSteps, watchErr>>

\* case err, ok := <-watcher.Errors: log.Error and go on.
CliLoopError(p) ==
    /\ Running /\ At(p, "Cli.select")
    /\ errors > 0 \/ watcherClosed
    /\ IF errors = 0
         THEN Return(p, "Cli.loop", "closed") /\ UNCHANGED errors
         ELSE errors' = errors - 1 /\ UNCHANGED stack /\ NoReturn(p)
    /\ UNCHANGED <<lockVars, calls, startWins, fileExists, statBroken,
                   events, watcherClosed, exited, envSteps, watchErr>>

\* Monitor(): ParseContext(t.startFile); t.lock.Wait();
\* ParseContext(t.endFile); then the deferred Cleanup(), which ends with the
\* deferred t.lock.Close().
Monitor ==
    <<"Monitor.parse", "Main.Wait", "Monitor.parse">> \o MainClose
        \o <<"Monitor.return">>

\* A goroutine that has not run anything.
Unused(q) == stack[q] = <<>> /\ last[q] = "none"

\* `go transaction.Monitor()` on a new goroutine.
GoMonitor(p, q) ==
    /\ Unused(q) /\ \A r \in Callers : r < q => ~Unused(r)
    /\ stack' = [stack EXCEPT ![p] = Tail(@), ![q] = Monitor]

\* The loop as it would be with `lock.Start(); go transaction.Monitor()`.
CliStartIfAlways(p) ==
    /\ Running /\ At(p, "Cli.start.if")
    /\ \E q \in Callers : GoMonitor(p, q)
    /\ NoReturn(p) /\ UNCHANGED <<lockVars, rest>>

\* if lock.Start() { go transaction.Monitor() }; continue
CliStartIf(p) ==
    /\ Running /\ At(p, "Cli.start.if")
    /\ IF ret[p] = "true"
         THEN \E q \in Callers : GoMonitor(p, q)
         ELSE stack' = [stack EXCEPT ![p] = Tail(@)]
    /\ NoReturn(p) /\ UNCHANGED <<lockVars, rest>>

\* if !lock.Started() { log.Fatal(...) }; lock.Release(); return
CliEndIf(p) ==
    /\ Running /\ At(p, "Cli.end.if")
    /\ IF ret[p] = "false"
         THEN exited' = TRUE /\ UNCHANGED stack
         ELSE Call(p, <<"Main.Release", "Cli.return">>) /\ UNCHANGED exited
    /\ NoReturn(p)
    /\ UNCHANGED <<lockVars, calls, startWins, fileExists, statBroken,
                   events, errors, watcherClosed, envSteps, watchErr>>

\* return, after lock.Release()
CliLoopReturn(p) ==
    /\ Running /\ At(p, "Cli.return")
    /\ Return(p, "Cli.loop", "ended")
    /\ UNCHANGED <<lockVars, rest>>

\* ParseContext(filename): log.Fatal when the file cannot be read or is not
\* JSON.
MonitorParse(q) ==
    /\ Running /\ At(q, "Monitor.parse")
    /\ \E ok \in BOOLEAN :
          IF ok THEN stack' = [stack EXCEPT ![q] = Tail(@)] /\ UNCHANGED exited
                ELSE exited' = TRUE /\ UNCHANGED stack
    /\ NoReturn(q)
    /\ UNCHANGED <<lockVars, calls, startWins, fileExists, statBroken,
                   events, errors, watcherClosed, envSteps, watchErr>>

\* Monitor() returns, its deferred calls made.
MonitorReturn(q) ==
    /\ Running /\ At(q, "Monitor.return")
    /\ Return(q, "Monitor", "void")
    /\ UNCHANGED <<lockVars, rest>>

\* lock.WaitForDone() on the main goroutine, which then returns from main:
\* the program ends.
CliWaitForDone ==
    /\ Running /\ Closed("done")
    /\ exited' = TRUE
    /\ UNCHANGED <<lockVars, stack, ret, last, calls, startWins, fileExists,
                   statBroken, events, errors, watcherClosed, envSteps, watchErr>>

\* The methods of the lock the loop and Monitor() call.
CliLockStep(p) ==
    \/ MainStartSelect(p) \/ MainStartClose(p)
    \/ MainStarted(p)
    \/ MainReleaseSelect(p) \/ MainReleaseClose(p)
    \/ MainWaitSelect(p) \/ MainWaitRecv(p)
    \/ DoneSelect(p) \/ DoneClose(p)
    \/ CloseReturn(p)

CliLoopStep(p) ==
    \/ CliLoopEvent(p) \/ CliLoopError(p)
    \/ CliStartIf(p) \/ CliEndIf(p) \/ CliLoopReturn(p)

MonitorStep(q) == MonitorParse(q) \/ MonitorReturn(q)

\* ------------------------------------------------------- the stop command
\* CliStop.Run: `if _, err := os.Stat(filename); errors.Is(err,
\* os.ErrNotExist) { } else { ... }`. Every other result of os.Stat, an error
\* included, takes the else branch.
StopStat(p) ==
    /\ Running /\ At(p, "Stop.Run")
    /\ IF Stat = "notexist"
         THEN Return(p, "Stop.Run", "nil")
         ELSE Goto(p, "Stop.remove") /\ NoReturn(p)
    /\ UNCHANGED <<lockVars, rest>>

\* err = os.Remove(filename); return. os.Remove succeeds only on a file
\* that is there, and can fail on one. The err assigned is the one the if
\* statement declares, whose scope includes the else branch; the bare
\* return returns the named result, which no statement assigns.
StopRemove(p) ==
    /\ Running /\ At(p, "Stop.remove")
    /\ \E removed \in BOOLEAN :
          /\ removed => fileExists
          /\ fileExists' = IF removed THEN FALSE ELSE fileExists
    /\ LET err == "nil" IN Return(p, "Stop.Run", err)
    /\ UNCHANGED <<lockVars, calls, startWins, statBroken, events, errors,
                   watcherClosed, exited, envSteps, watchErr>>

StopStep(p) == StopStat(p) \/ StopRemove(p)

\* --------------------------------------------------------- the callers
\* The public methods of SoftLock.
LockOps == {"Start", "Started", "Release", "Released", "Wait", "Done",
            "Finished", "Close", "WaitForDone", "WaitForStart"}

\* The public methods of FileFlag that its users call (Watch runs on the
\* watcher goroutine). "FF.Close.nil" is Close() on a nil *FileFlag.
FlagOps == {"FF.WaitForWatch", "FF.WaitForStart", "FF.Wait", "FF.WaitForDone",
            "FF.Close", "FF.Close.nil"}

\* The positions a call of method op runs through: the calls a method makes
\* one after the other, or the method's first statement.
Body(op) ==
    CASE op = "Close" -> Close
      [] op = "Main.Close" -> MainClose
      [] op = "FF.WaitForStart" -> FlagWaitForStart
      [] op = "FF.Wait" -> FlagWait
      [] op = "FF.WaitForDone" -> FlagWaitForDone
      [] OTHER -> <<op>>

Budget(op) == IF op \in FlagOps THEN MaxFlagCalls ELSE MaxCalls

\* A caller that is in no method calls one, while the budget lasts.
Invoke(p, op) ==
    /\ Running /\ stack[p] = <<>> /\ calls < Budget(op)
    /\ stack' = [stack EXCEPT ![p] = Body(op)]
    /\ calls' = calls + 1
    /\ NoReturn(p)
    /\ UNCHANGED <<lockVars, startWins, ffVars>>

\* NewSoftLock(): three open channels, not started, mutex free.
NewSoftLock ==
    /\ _started = FALSE
    /\ closes = [c \in Chans |-> 0]
    /\ m = {}

\* No goroutine has called anything yet.
NoCalls ==
    /\ stack = [p \in Procs |-> <<>>]
    /\ ret = [p \in Procs |-> "void"]
    /\ last = [p \in Procs |-> "none"]
    /\ calls = 0
    /\ startWins = 0

\* NewFileFlag(filename): a watcher on the parent directory, which delivers
\* what happens from now on, a new SoftLock and the open channel `watching`.
\* The sentinel file may or may not exist already.
NewFileFlag ==
    /\ NewSoftLock
    /\ fileExists \in BOOLEAN
    /\ statBroken = FALSE
    /\ events = <<>>
    /\ errors = 0
    /\ watcherClosed = FALSE
    /\ exited = FALSE
    /\ envSteps = 0
    /\ watchErr = "unset"

\* ---------------------------------------------------------------- SoftLock
\* A SoftLock of its own, used by NCallers goroutines.
Init ==
    /\ NewSoftLock
    /\ NoCalls
    /\ fileExists = FALSE /\ statBroken = FALSE /\ events = <<>> /\ errors = 0
    /\ watcherClosed = FALSE /\ exited = FALSE /\ envSteps = 0
    /\ watchErr = "unset"

Next ==
    \/ \E p \in Callers : \E op \in LockOps : Invoke(p, op)
    \/ \E p \in Callers : LockStep(p)
    \/ \E p \in Callers : QueryStep(p)

Spec == Init /\ [][Next]_vars

\* ---------------------------------------------------------------- FileFlag
\* A FileFlag: the watcher goroutine runs Watch(), NCallers goroutines call
\* the other methods, and the environment creates and removes the file.
InitFlag == NewFileFlag /\ NoCalls

NextFlag ==
    \/ Watch(Watcher)
    \/ EnvStep
    \/ \E p \in Callers : \E op \in FlagOps : Invoke(p, op)
    \/ \E p \in Procs : LockStep(p)
    \/ \E p \in Callers : FlagStep(p)

SpecFlag == InitFlag /\ [][NextFlag]_vars

\* The scheduler runs every goroutine that can take a step, and sync.Mutex
\* hands the mutex to a goroutine that waits for it.
FairSpec == Spec /\ \A p \in Callers : WF_vars(LockStep(p) \/ QueryStep(p))

\* ------------------------------------------------------------ the scenario
\* The use FileFlag is made for: Watch() runs on its goroutine, the callers
\* wait for the watch, for the file and for its removal, another process
\* creates and removes files, and the notification facility delivers or
\* loses what it sees. Nothing fails and nobody calls Close().
ScenarioOps == {"FF.WaitForWatch", "FF.WaitForStart", "FF.Wait"}

ScenarioWatch(p) ==
    \/ WatchGo(p) \/ WatchStat(p) \/ WatchSignalSelect(p) \/ WatchSignalClose(p)
    \/ WatchEvent(p)
    \/ WatchTimeout(p) \/ WatchTimeoutStat(p) \/ WatchTimeoutStarted(p)
    \/ WatchReturn(p) \/ WatchTimeoutReturn(p)

ScenarioLockStep(p) ==
    \/ StartSelect(p) \/ StartClose(p) \/ StartAssign(p)
    \/ Started(p)
    \/ ReleaseSelect(p) \/ ReleaseClose(p)
    \/ WaitCheck(p) \/ WaitSelect(p) \/ WaitRecv(p)
    \/ WaitForStartCheck(p) \/ WaitForStartRecv(p)

ScenarioFlagStep(p) ==
    \/ FlagWaitForWatchSelect(p) \/ FlagWaitForWatchRecv(p)
    \/ FlagWaitForStartIf(p) \/ FlagWaitForStartReturn(p)
    \/ FlagWaitReturn(p)

ScenarioEnv ==
    \/ \E d \in BOOLEAN : Touch(d)
    \/ \E d \in BOOLEAN : Remove(d)
    \/ \E e \in OtherEvents : Unrelated(e)

NextScenario ==
    \/ ScenarioWatch(Watcher)
    \/ ScenarioEnv
    \/ \E p \in Callers : \E op \in ScenarioOps : Invoke(p, op)
    \/ \E p \in Procs : ScenarioLockStep(p)
    \/ \E p \in Callers : ScenarioFlagStep(p)

SpecScenario == InitFlag /\ [][NextScenario]_vars

\* The scheduler runs every goroutine that can take a step, and the timer
\* of time.After fires when nothing else is ready.
FairScenario ==
    /\ SpecScenario
    /\ WF_vars(ScenarioWatch(Watcher) \/ ScenarioLockStep(Watcher))
    /\ \A p \in Callers : WF_vars(ScenarioLockStep(p) \/ ScenarioFlagStep(p))

\* ------------------------------------------------------------ the teardown
\* Watch() runs on its goroutine with everything the environment can do to
\* it, failures included, while the callers call Close().
TeardownLockStep(p) ==
    \/ StartSelect(p) \/ StartClose(p) \/ StartAssign(p)
    \/ Started(p)
    \/ ReleaseSelect(p) \/ ReleaseClose(p)
    \/ DoneSelect(p) \/ DoneClose(p)
    \/ CloseReturn(p)

TeardownFlagStep(p) ==
    \/ FlagCloseSelect(p) \/ FlagCloseWatcher(p) \/ FlagCloseWatching(p)

NextTeardown ==
    \/ Watch(Watcher)
    \/ EnvStep
    \/ \E p \in Callers : Invoke(p, "FF.Close")
    \/ \E p \in Procs : TeardownLockStep(p)
    \/ \E p \in Callers : TeardownFlagStep(p)

SpecTeardown == InitFlag /\ [][NextTeardown]_vars

\* The scheduler runs every goroutine that can take a step, and the timer
\* of time.After fires when nothing else is ready.
FairTeardown ==
    /\ SpecTeardown
    /\ WF_vars(Watch(Watcher) \/ TeardownLockStep(Watcher))
    /\ \A p \in Callers : WF_vars(TeardownLockStep(p) \/ TeardownFlagStep(p))

\* ------------------------------------------ the SoftLock of package main
\* The public methods of the SoftLock of package main.
MainOps == {"Main.Start", "Main.Started", "Main.Release", "Released",
            "Main.Wait", "Done", "Finished", "Main.Close", "WaitForDone"}

\* A SoftLock of package main, used by NCallers goroutines.
NextMain ==
    \/ \E p \in Callers : \E op \in MainOps : Invoke(p, op)
    \/ \E p \in Callers : MainLockStep(p)

SpecMain == Init /\ [][NextMain]_vars

\* --------------------------------------------- the command-line program
\* A new watcher, a new SoftLock, the event loop started.
InitCli ==
    /\ NewSoftLock
    /\ stack = [p \in Procs |-> IF p = Loop THEN <<"Cli.select">> ELSE <<>>]
    /\ ret = [p \in Procs |-> "void"]
    /\ last = [p \in Procs |-> "none"]
    /\ calls = 0 /\ startWins = 0
    /\ fileExists = FALSE /\ statBroken = FALSE /\ events = <<>> /\ errors = 0
    /\ watcherClosed = FALSE /\ exited = FALSE /\ envSteps = 0
    /\ watchErr = "unset"

NextCli ==
    \/ \E e \in CliEvents : CliNotify(e)
    \/ WatcherFails
    \/ CliLoopStep(Loop)
    \/ \E p \in Procs : CliLockStep(p)
    \/ \E q \in Callers : MonitorStep(q)
    \/ CliWaitForDone

SpecCli == InitCli /\ [][NextCli]_vars

\* ------------------------------------------------------- the stop command
\* `stop` runs, more than once and possibly at the same time, while other
\* processes create and remove the flag file.
NextStop ==
    \/ \E p \in Callers : Invoke(p, "Stop.Run")
    \/ \E p \in Callers : StopStep(p)
    \/ EnvStep

SpecStop == InitFlag /\ [][NextStop]_vars

\* ------------------------------------- the test "Wait: should not block"
\* The three goroutines of the test, on a fresh SoftLock. The third closes
\* the channel `done` of the test after Wait(), and the test body goes on
\* only once that channel is closed: the queries and Done() of the test body
\* are the continuation of the third goroutine.
Starter == 0
Releaser == 1
Waiter == 2

WaitTestInit ==
    /\ NewSoftLock
    /\ stack = [p \in Procs |->
                  CASE p = Starter -> <<"Start">>
                    [] p = Releaser -> <<"WaitForStart", "Release">>
                    [] p = Waiter -> <<"Wait", "Started", "Released",
                                       "Finished", "Done", "Finished">>
                    [] OTHER -> <<>>]
    /\ ret = [p \in Procs |-> "void"]
    /\ last = [p \in Procs |-> "none"]
    /\ calls = 0 /\ startWins = 0
    /\ fileExists = FALSE /\ statBroken = FALSE /\ events = <<>> /\ errors = 0
    /\ watcherClosed = FALSE /\ exited = FALSE /\ envSteps = 0
    /\ watchErr = "unset"

WaitTestStep(p) ==
    \/ StartSelect(p) \/ StartClose(p) \/ StartAssign(p)
    \/ WaitForStartCheck(p) \/ WaitForStartRecv(p)
    \/ ReleaseSelect(p) \/ ReleaseClose(p)
    \/ WaitCheck(p) \/ WaitSelect(p) \/ WaitRecv(p)
    \/ Started(p) \/ Released(p) \/ Finished(p)
    \/ DoneSelect(p) \/ DoneClose(p)

NextWaitTest == \E p \in Procs : WaitTestStep(p)

SpecWaitTest == WaitTestInit /\ [][NextWaitTest]_vars

\* ------------------------------------------------------------------ claims
\* What the queries return: Started() reads l._started under the mutex,
\* Released() and Finished() test l.wait and l.done.
IsStarted == _started
IsReleased == Closed("wait")
IsFinished == Closed("done")

\* C1: among all the Start() calls on one lock, concurrent or not, exactly
\* one returns true and the others return false, and once a Start() call has
\* returned the lock is started.
C1_StartOnce ==
    /\ startWins <= 1
    /\ \A p \in Procs : last[p] = "Start" => startWins = 1 /\ IsStarted

\* Two goroutines have returned from Start(), one with true, one with false.
C1_Witness ==
    \E p, q \in Callers :
        /\ last[p] = "Start" /\ ret[p] = "true"
        /\ last[q] = "Start" /\ ret[q] = "false"

\* C2: in every state, under any interleaving of Start, Release, Done and
\* Close, a released lock is a started lock.
C2_ReleasedImpliesStarted == IsReleased => IsStarted

\* A Release() call has returned and the lock is released.
C2_Witness == \E p \in Callers : last[p] = "Release" /\ IsReleased

\* C3: Release() on a lock that is not started changes nothing and is not
\* remembered: no step taken while the lock is not started (the Release()
\* itself, a later Start()) releases it, and the lock is released only by
\* the close statement of a Release() call.
C3_ReleaseIdleNoop ==
    [][/\ ~IsStarted => closes'["wait"] = closes["wait"]
       /\ (\E p \in Procs : At(p, "Release") /\ ~IsStarted /\ stack'[p] # stack[p])
             => UNCHANGED lockVars
       /\ closes'["wait"] # closes["wait"]
             => \E p \in Procs : At(p, "Release.close")]_vars

\* A Release() call returned without releasing, and the lock was started after.
C3_Witness ==
    \E p \in Callers : last[p] = "Release" /\ ~IsReleased /\ IsStarted

\* C4: once a Close() call has returned, from whatever phase and with
\* whatever else running, the lock is started, released and finished.
C4_CloseTotal ==
    \A p \in Procs : last[p] = "Close" => IsStarted /\ IsReleased /\ IsFinished

\* Two Close() calls have returned.
C4_Witness ==
    \E p, q \in Callers : p # q /\ last[p] = "Close" /\ last[q] = "Close"

\* In the middle of SoftLock.Wait(), past the passthrough test.
Waiting(p) == At(p, "Wait.select") \/ At(p, "Wait.recv")

\* C5: a Wait() that finds the lock not started returns at once, without
\* changing the lock, so that no goroutine is ever blocked in Wait() on a
\* lock that is not started.
C5_WaitPassthrough ==
    /\ [][\A p \in Procs :
            At(p, "Wait") /\ ~IsStarted /\ stack'[p] # stack[p]
               => stack'[p] = Tail(stack[p]) /\ UNCHANGED lockVars]_vars
    /\ [](\A p \in Procs : Waiting(p) => IsStarted)

\* A Wait() returned by the passthrough, and the lock was started and
\* released afterwards.
C5_Witness ==
    \E p \in Callers : last[p] = "Wait" /\ ret[p] = "passthrough" /\ IsReleased

\* C6: a Wait() that finds the lock started returns only when the lock is
\* released, returns from its select when it is released already, and
\* returns eventually once another goroutine calls Release() (or Close(),
\* which calls it).
C6_WaitBlocksUntilReleased ==
    /\ [](\A p \in Procs :
            last[p] = "Wait" /\ ret[p] # "passthrough" => IsReleased)
    /\ [][\A p \in Procs :
            At(p, "Wait.select") /\ IsReleased /\ stack'[p] # stack[p]
               => stack'[p] = Tail(stack[p])]_vars
    /\ \A p \in Callers :
          (Waiting(p) /\ \E q \in Callers : At(q, "Release")) ~> ~Waiting(p)

\* A Wait() blocked in `<-l.wait` and was woken.
C6_Witness == \E p \in Callers : last[p] = "Wait" /\ ret[p] = "woken"

\* C7: WaitForDone() returns only when the done signal has fired, whether
\* or not the lock was started or released.
C7_WaitForDoneBlocks == \A p \in Procs : last[p] = "WaitForDone" => IsFinished

\* A WaitForDone() returned on a lock that was never started.
C7_Witness == \E p \in Callers : last[p] = "WaitForDone" /\ ~IsStarted

\* C8: in every state a finished lock is released and a released lock is
\* started.
C8_PhaseOrder == (IsFinished => IsReleased) /\ (IsReleased => IsStarted)

\* C9: a lock that is started stays started, a released lock stays
\* released and a finished lock stays finished.
C9_Monotonic ==
    [][/\ IsStarted => IsStarted'
       /\ IsReleased => IsReleased'
       /\ IsFinished => IsFinished']_vars

\* Started() returned true, and the lock has since been finished.
C9_Witness ==
    \E p \in Callers : last[p] = "Started" /\ ret[p] = "true" /\ IsFinished

\* C10: close() is executed at most once on each of l.started, l.wait and
\* l.done, whatever Watch()'s event and timeout branches and the Close()
\* calls do concurrently.
C10_SignalsFireOnce == \A c \in LockChans : closes[c] <= 1

\* The watch loop has started and released the lock and returned, and a
\* FileFlag.Close() has run to its end.
C10_Witness ==
    /\ \A c \in LockChans : closes[c] = 1
    /\ last[Watcher] = "Watch" /\ ret[Watcher] = "removed"
    /\ \E p \in Callers : last[p] = "FF.Close"

\* In SoftLock.WaitForStart(), at its test or in `<-l.started`.
InWaitForStart(p) == At(p, "WaitForStart") \/ At(p, "WaitForStart.recv")
\* In SoftLock.Wait(), at its test or past it.
InWait(p) == At(p, "Wait") \/ Waiting(p)
\* In one of the three methods that wait for a signal.
Blocked(p) == InWaitForStart(p) \/ Waiting(p) \/ At(p, "WaitForDone")

\* C11: a waiter never misses a signal. A WaitForStart(), Wait() or
\* WaitForDone() that takes a step after its signal has fired returns from
\* that step instead of going to sleep, and a waiter that is anywhere in
\* its method when the signal fires, before its test, between its test and
\* its receive, or asleep in the receive, returns.
C11_NoMissedWakeup ==
    /\ [][\A p \in Procs :
            /\ \/ At(p, "WaitForStart") /\ Closed("started")
               \/ At(p, "WaitForStart.recv") /\ Closed("started")
               \/ Waiting(p) /\ IsReleased
               \/ At(p, "WaitForDone") /\ IsFinished
            /\ stack'[p] # stack[p]
            => stack'[p] = Tail(stack[p])]_vars
    /\ \A p \in Callers :
          /\ (InWaitForStart(p) /\ Closed("started")) ~> ~InWaitForStart(p)
          /\ (InWait(p) /\ IsReleased) ~> ~InWait(p)
          /\ (At(p, "WaitForDone") /\ IsFinished) ~> ~At(p, "WaitForDone")

\* A goroutine that slept in `<-l.started` was woken by the Start() of
\* another, which has returned true.
C11_Witness ==
    \E p, q \in Callers :
        /\ last[p] = "WaitForStart" /\ ret[p] = "woken"
        /\ last[q] = "Start" /\ ret[q] = "true"

\* C12: once a Close() call has returned, every goroutine that is in
\* Wait(), WaitForStart() or WaitForDone() returns.
C12_CloseUnblocksAll ==
    \A p, q \in Callers : (last[q] = "Close" /\ Blocked(p)) ~> ~Blocked(p)

\* Close() has returned and a goroutine is still in `<-l.done`.
C12_Witness ==
    \E p, q \in Callers : last[q] = "Close" /\ At(p, "WaitForDone")

\* At a statement of Start, Started, Release, Released, Done, Finished or at
\* the return of Close.
InTrigger(p) ==
    \E l \in {"Start", "Start.close", "Start.assign", "Started", "Release",
              "Release.close", "Released", "Done", "Done.close", "Finished",
              "Close.return"} : At(p, l)

\* C13: a goroutine that waits for a signal does not hold the mutex, which
\* is held only inside Start, Release and Done, and every call of Start,
\* Started, Release, Released, Done, Finished and Close completes, whoever
\* is waiting.
C13_TriggersNeverBlock ==
    /\ [](\A p \in Procs : Blocked(p) \/ At(p, "Wait") => p \notin m)
    /\ [](\A p \in m : At(p, "Start.close") \/ At(p, "Start.assign")
                          \/ At(p, "Release.close") \/ At(p, "Done.close"))
    /\ \A p \in Callers : InTrigger(p) ~> ~InTrigger(p)

\* A goroutine is still in `<-l.wait` when the Release() call of another
\* has returned.
C13_Witness ==
    \E p, q \in Callers :
        /\ At(p, "Wait.recv") /\ last[q] = "Release" /\ IsReleased

\* C14: WaitForStart() returns from its test when the lock is started,
\* returns otherwise only when l.started is closed, and a Started() call
\* made once l.started is closed returns true: Start() closes l.started
\* and sets l._started without letting go of the mutex Started() takes.
C14_WaitForStart ==
    /\ [][\A p \in Procs :
            At(p, "WaitForStart") /\ IsStarted /\ stack'[p] # stack[p]
               => stack'[p] = Tail(stack[p])]_vars
    /\ [](\A p \in Procs : last[p] = "WaitForStart" => Closed("started"))
    /\ [](Closed("started") /\ m = {} => IsStarted)
    /\ [][\A p \in Procs :
            At(p, "Started") /\ Closed("started") /\ stack'[p] # stack[p]
               => ret'[p] = "true"]_vars

\* WaitForStart() was woken from `<-l.started` while Start() had not yet
\* set l._started.
C14_Witness ==
    \E p \in Callers :
        last[p] = "WaitForStart" /\ ret[p] = "woken" /\ ~_started

\* C15: once the lock is finished no step changes what Started(),
\* Released() and Finished() return.
C15_InertAfterDone ==
    [][IsFinished => /\ IsStarted' = IsStarted
                     /\ IsReleased' = IsReleased
                     /\ IsFinished' = IsFinished]_vars

\* Position l is on the call stack of p: p is in the call that ends there.
InCall(p, l) == \E i \in 1..Len(stack[p]) : stack[p][i] = l
\* In FileFlag.WaitForStart(), called directly or by FileFlag.Wait().
InFlagWaitForStart(p) ==
    InCall(p, "FF.WaitForStart.if") \/ InCall(p, "FF.WaitForStart.return")
\* In FileFlag.Wait().
InFlagWait(p) == InCall(p, "FF.Wait.return")
\* Watch() is running and is not about to return after a removal.
WatchRunning ==
    /\ stack[Watcher] # <<>>
    /\ ~InCall(Watcher, "Watch.return")
    /\ ~InCall(Watcher, "Watch.timeout.return")
\* No removal of the sentinel file waits in watcher.Events.
NoRemovePending ==
    \A i \in 1..Len(events) : events[i] # Event("flag", "Remove")

\* C16: with Watch() running and no removal seen before, a FileFlag.
\* WaitForStart() returns once the file is there (unless the file goes away
\* again before the lock is started), and a FileFlag.Wait() returns once
\* the lock is started and the file removed (unless the file comes back).
C16_CreateThenRemove ==
    \A p \in Callers :
       /\ (InFlagWaitForStart(p) /\ fileExists /\ WatchRunning /\ NoRemovePending)
             ~> (~InFlagWaitForStart(p) \/ ~fileExists)
       /\ (InFlagWait(p) /\ IsStarted /\ ~fileExists)
             ~> (~InFlagWait(p) \/ fileExists)

\* Watch() found no file, the file was created and removed, and a
\* FileFlag.Wait() that waited for the release has returned.
C16_Witness ==
    /\ watchErr = "notexist" /\ ~fileExists /\ envSteps = 2
    /\ \E p \in Callers : last[p] = "FF.Wait" /\ ret[p] = "woken"

\* C17: when Watch() finds the file at its first os.Stat, the next thing it
\* does is call Start(): until the lock is started Watch() is inside that
\* call, with close(ff.watching) and the loop still ahead, so the lock is
\* started whenever `watching` is closed, and every FileFlag.WaitForStart()
\* returns, whatever the environment does or does not do.
C17_ExistingFileStartsFirst ==
    /\ [][At(Watcher, "Watch") /\ Stat = "nil" /\ stack'[Watcher] # stack[Watcher]
            => stack'[Watcher] = <<"Start", "Watch.signal">>]_vars
    /\ [](watchErr = "nil" /\ ~IsStarted
            => Len(stack[Watcher]) = 2 /\ stack[Watcher][2] = "Watch.signal")
    /\ [](watchErr = "nil" /\ Closed("watching") => IsStarted)
    /\ \A p \in Callers :
          (InFlagWaitForStart(p) /\ watchErr = "nil") ~> ~InFlagWaitForStart(p)

\* The file was there, the environment has done nothing, and a FileFlag.
\* WaitForStart() has returned.
C17_Witness ==
    /\ watchErr = "nil" /\ envSteps = 0 /\ events = <<>>
    /\ \E p \in Callers : last[p] = "FF.WaitForStart"

\* C18: a timeout that finds the file calls Start() and goes on looping, so
\* that when Watch() sits in its select on a lock that is not started, with
\* the file there and no notification to read, the lock is started (unless
\* the file is removed before the timeout looks).
C18_TimeoutStarts ==
    /\ [][At(Watcher, "Watch.timeout.stat") /\ Stat = "nil"
             /\ stack'[Watcher] # stack[Watcher]
            => stack'[Watcher] = <<"Start", "Watch.select">>]_vars
    /\ (At(Watcher, "Watch.select") /\ fileExists /\ events = <<>>)
          ~> (IsStarted \/ ~fileExists)
    /\ (At(Watcher, "Watch.timeout.stat") /\ fileExists)
          ~> (IsStarted \/ ~fileExists)

\* The file was created after Watch() looked, its notification is not in
\* the queue, and the timeout branch is about to stat the file.
C18_Witness ==
    /\ At(Watcher, "Watch.timeout.stat") /\ watchErr = "notexist"
    /\ fileExists /\ ~IsStarted /\ events = <<>> /\ envSteps = 1

\* C19: what the timeout branch does, by what os.Stat and Started() tell
\* it. File there: Start() and loop. File gone and lock started: Release()
\* and return. File gone and lock not started: nothing, loop.
C19_TimeoutReconciles ==
    /\ [][At(Watcher, "Watch.timeout.stat") /\ stack'[Watcher] # stack[Watcher]
            => /\ UNCHANGED lockVars
               /\ fileExists => stack'[Watcher] = <<"Start", "Watch.select">>
               /\ ~fileExists
                    => stack'[Watcher] = <<"Started", "Watch.timeout.started">>]_vars
    /\ [][At(Watcher, "Watch.timeout.started") /\ stack'[Watcher] # stack[Watcher]
            => /\ UNCHANGED lockVars
               /\ IsStarted
                    => stack'[Watcher] = <<"Release", "Watch.timeout.return">>
               /\ ~IsStarted => stack'[Watcher] = <<"Watch.select">>]_vars
    /\ [](last[Watcher] = "Watch" /\ ret[Watcher] = "reconciled" => IsReleased)
    /\ (At(Watcher, "Watch.timeout.stat") /\ fileExists /\ ~IsStarted)
          ~> ((IsStarted /\ At(Watcher, "Watch.select")) \/ ~fileExists)
    /\ (At(Watcher, "Watch.timeout.started") /\ IsStarted)
          ~> (IsReleased /\ stack[Watcher] = <<>>)

\* Watch() has returned from its timeout branch, the lock released.
C19_Witness ==
    last[Watcher] = "Watch" /\ ret[Watcher] = "reconciled" /\ IsReleased

\* Watch() found no file, has closed `watching`, and nothing has happened
\* to the file since.
Listening == watchErr = "notexist" /\ Closed("watching") /\ envSteps = 0

\* C20: whatever notifications are lost, a file created once Watch() is
\* listening and removed later gets the lock released and FileFlag.Wait()
\* to return: from the creation on, either that happens or the file stays.
C20_NoPermanentHang ==
    /\ [](Listening => [](fileExists => <>(IsReleased \/ []fileExists)))
    /\ \A p \in Callers :
          [](Listening
               => [](fileExists /\ InFlagWait(p)
                       => <>(~InFlagWait(p) \/ []fileExists)))

\* Watch() takes an event from watcher.Events.
TakesEvent ==
    /\ At(Watcher, "Watch.select") /\ events # <<>>
    /\ events' = Tail(events) /\ stack'[Watcher] # <<>>

\* C21: an event for the sentinel file that is a creation makes Watch()
\* call Start() and go back to its select with the lock started; one that
\* is a removal makes it call Release() and return, and a started lock is
\* then released.
C21_EventBranch ==
    /\ [][TakesEvent /\ Head(events) = Event("flag", "Create")
            => stack'[Watcher] = <<"Start", "Watch.select">>]_vars
    /\ [][TakesEvent /\ Head(events) = Event("flag", "Remove")
            => stack'[Watcher] = <<"Release", "Watch.return">>]_vars
    /\ (stack[Watcher] = <<"Start", "Watch.select">>)
          ~> (IsStarted /\ At(Watcher, "Watch.select"))
    /\ (stack[Watcher] = <<"Release", "Watch.return">>)
          ~> (last[Watcher] = "Watch" /\ ret[Watcher] = "removed")
    /\ [](last[Watcher] = "Watch" /\ ret[Watcher] = "removed" /\ IsStarted
            => IsReleased)

\* Watch() found no file, started the lock later, read the removal event
\* and returned, the lock released.
C21_Witness ==
    /\ watchErr = "notexist" /\ IsReleased
    /\ last[Watcher] = "Watch" /\ ret[Watcher] = "removed"

\* FileFlag.Close() was called on the FileFlag: a call is in progress, or
\* one got as far as closing the watcher.
CloseCalled ==
    \/ watcherClosed
    \/ \E p \in Callers : At(p, "FF.Close") \/ InCall(p, "FF.Close.watcher")

\* C22: the lock is finished only by a FileFlag.Close() of a caller: l.done
\* is closed only by a goroutine that is inside FileFlag.Close(), never by
\* Watch(), whichever way it sees the removal.
C22_RemovalNeverFinishes ==
    /\ [](IsFinished => CloseCalled)
    /\ [][closes'["done"] # closes["done"]
            => \E p \in Callers :
                  At(p, "Done.close") /\ InCall(p, "FF.Close.watcher")]_vars

\* Watch() has seen the removal, released the lock and returned, nobody
\* called Close(), and the lock is not finished.
C22_Witness ==
    /\ last[Watcher] = "Watch" /\ ret[Watcher] \in {"removed", "reconciled"}
    /\ IsReleased /\ ~IsFinished /\ ~CloseCalled

\* C23: when Watch() has ended on an error of the notification facility,
\* the lock is started, released and finished.
C23_ErrorCloses == exited => IsStarted /\ IsReleased /\ IsFinished

\* C24: whenever FileFlag.WaitForStart() has returned, `watching` and
\* l.started are closed, and l._started is set as soon as the mutex that
\* Started() takes is free.
C24_FlagWaitForStart ==
    \A p \in Callers :
        last[p] = "FF.WaitForStart"
           => /\ Closed("watching") /\ Closed("started")
              /\ m = {} => IsStarted

\* FileFlag.WaitForStart() found the lock not started, waited in
\* SoftLock.WaitForStart() and has returned.
C24_Witness ==
    \E p \in Callers : last[p] = "FF.WaitForStart" /\ ret[p] = "woken"

\* Watch() has done its first os.Stat and has found the file or found it
\* missing.
WatchChecked == watchErr \in {"nil", "notexist"}

\* C25 as stated: whenever FileFlag.WaitForWatch() has returned, Watch()
\* has done its first check and closed `watching`.
C25_OnlyAfterWatch ==
    \A p \in Callers :
        last[p] = "FF.WaitForWatch" => WatchChecked /\ Closed("watching")

\* C25 amended: whenever FileFlag.WaitForWatch() has returned `watching`
\* is closed; `watching` is closed only by Watch() after its first check
\* (and after Start(), if the file was there) or by a Close(); and a
\* WaitForWatch() that finds it closed returns from its select.
C25_AfterWatchOrClose ==
    /\ [](\A p \in Callers : last[p] = "FF.WaitForWatch" => Closed("watching"))
    /\ [](Closed("watching") => WatchChecked \/ CloseCalled)
    /\ [](Closed("watching") /\ watchErr = "nil" => IsStarted)
    /\ [][\A p \in Callers :
            At(p, "FF.WaitForWatch") /\ Closed("watching")
               /\ stack'[p] # stack[p]
              => stack'[p] = Tail(stack[p])]_vars

\* A WaitForWatch() that slept in `<-ff.watching` was woken by a Close(),
\* with Watch() not yet at its first check.
C25_Witness ==
    /\ CloseCalled /\ ~WatchChecked
    /\ \E p \in Callers : last[p] = "FF.WaitForWatch" /\ ret[p] = "woken"

\* C26: Close() on a nil FileFlag changes nothing, and whenever a Close()
\* on the FileFlag has returned the watcher is closed and the lock is
\* started, released and finished.
C26_FlagClose ==
    /\ [][\A p \in Callers :
            At(p, "FF.Close.nil") /\ stack'[p] # stack[p]
              => /\ stack'[p] = Tail(stack[p])
                 /\ UNCHANGED <<lockVars, ffVars>>]_vars
    /\ [](\A p \in Callers :
            last[p] = "FF.Close" /\ ret[p] # "nil"
              => watcherClosed /\ IsStarted /\ IsReleased /\ IsFinished)

\* One goroutine has returned from Close() on a nil FileFlag with the lock
\* untouched, another has then closed the FileFlag.
C26_Witness ==
    \E p, q \in Callers :
        /\ last[p] = "FF.Close" /\ ret[p] = "nil"
        /\ last[q] = "FF.Close" /\ ret[q] = "void"

\* Watch() is over: it has returned, or the program has ended.
WatchOver == last[Watcher] = "Watch" \/ ~Running

\* C27: once the watcher is closed or the lock is finished, Watch() ends.
C27_WatchTerminates == (watcherClosed \/ IsFinished) ~> WatchOver

\* Close() closed the watcher while Watch() was in its loop, and Watch()
\* returned on the closed channel.
C27_Witness ==
    /\ watcherClosed /\ WatchChecked
    /\ last[Watcher] = "Watch" /\ ret[Watcher] = "closed"

\* C28: an event whose name is not the sentinel path, whatever its
\* operation, leaves the lock as it is and Watch() in its select.
C28_OtherNamesIgnored ==
    [][TakesEvent /\ Head(events).name # "flag"
         => UNCHANGED lockVars /\ stack'[Watcher] = stack[Watcher]]_vars

\* The removal of another file is the next event Watch() reads, on a lock
\* that is started and not released.
C28_Witness ==
    /\ At(Watcher, "Watch.select") /\ events # <<>>
    /\ Head(events) = Event("other", "Remove")
    /\ IsStarted /\ ~IsReleased

\* C29: a timeout whose os.Stat fails with an error other than "does not
\* exist" makes Watch() return at once, with the lock as it was.
C29_StatErrorGivesUp ==
    [][At(Watcher, "Watch.timeout.stat") /\ statBroken
         /\ stack'[Watcher] # stack[Watcher]
         => /\ stack'[Watcher] = <<>>
            /\ last'[Watcher] = "Watch" /\ ret'[Watcher] = "stat-error"
            /\ UNCHANGED lockVars]_vars

\* Watch() passed its first os.Stat, started the lock, and returned from
\* the timeout branch on the error, the lock still not released.
C29_Witness ==
    /\ WatchChecked /\ IsStarted /\ ~IsReleased
    /\ last[Watcher] = "Watch" /\ ret[Watcher] = "stat-error"

\* C30: FileFlag.Wait() never returns by the passthrough of SoftLock.Wait():
\* whenever it has returned the lock is released.
C30_FlagWaitNoPassthrough ==
    \A p \in Callers :
        last[p] = "FF.Wait" => ret[p] # "passthrough" /\ IsReleased

\* A FileFlag.Wait() has returned after the Close() of another goroutine,
\* with the file never removed.
C30_Witness ==
    \E p, q \in Callers :
        /\ last[p] = "FF.Wait" /\ last[q] = "FF.Close" /\ ret[q] = "void"
        /\ envSteps = 0

\* C31: ff.watching is closed at most once, under every interleaving of
\* Watch() and Close() and of two Close() calls.
C31_WatchingFiresOnce == closes["watching"] <= 1

\* C32: whenever Watch() has returned because the tracked path was removed
\* (removal event or reconciliation), the lock is released.
C32_RemovalReturnsReleased ==
    last[Watcher] = "Watch" /\ ret[Watcher] \in {"removed", "reconciled"}
        => IsReleased

\* C33: once Watch() has made its initial os.Stat, whatever its result,
\* ff.watching is eventually closed.
C33_WatchingEventuallyFires == (watchErr # "unset") ~> Closed("watching")

\* C38 as stated: in every reachable state l._started is true exactly when
\* l.started is closed.
C38_FlagIsSignal == _started <=> Closed("started")

\* C38: l._started is true only when l.started is closed, and exactly when
\* it is closed whenever no goroutine holds the mutex, which every method
\* that reads l._started takes.
C38_FlagIsSignalUnlocked ==
    /\ _started => Closed("started")
    /\ m = {} => (_started <=> Closed("started"))

\* A Start() has won and returned, another has lost, and the mutex is free.
C38_Witness ==
    /\ m = {} /\ _started
    /\ \E p, q \in Callers :
          /\ last[p] = "Start" /\ ret[p] = "true"
          /\ last[q] = "Start" /\ ret[q] = "false"

InMainWait(p) == At(p, "Main.Wait") \/ At(p, "Main.Wait.recv")

\* C35: Wait() of the package-main SoftLock returns only on a lock that is
\* started and released, and l.wait is closed only by a Release() another
\* goroutine makes after l.started was closed: a Wait() called before the
\* start stays blocked until then.
C35_MainWaitBlocks ==
    [][/\ \A p \in Callers :
             InMainWait(p) /\ ~InMainWait(p)'
                 => /\ Closed("started") /\ Closed("wait")
                    /\ last'[p] = "Main.Wait"
       /\ ~Closed("wait") /\ Closed("wait")'
             => /\ Closed("started")
                /\ \E q \in Callers :
                      At(q, "Main.Release.close") /\ ~InMainWait(q)]_vars

\* A Wait() has found l.wait open, has blocked, and has returned after the
\* Start() and the Release() of the other goroutine, the three calls made.
C35_Witness ==
    \E p, q \in Callers :
        /\ p # q /\ calls = 3
        /\ last[p] = "Main.Wait" /\ ret[p] = "woken"
        /\ last[q] = "Main.Release"

\* The number of goroutines `go transaction.Monitor()` has started.
Monitors == Cardinality({q \in Callers : ~Unused(q)})

\* C36: the event loop starts Monitor() at most once, and has started it
\* exactly once as soon as it has handled the lock.Start() that won,
\* however many events of the start file it reads.
C36_MonitorOnce ==
    /\ Monitors <= 1
    /\ Monitors = 1 <=>
          /\ Closed("started")
          /\ ~(At(Loop, "Cli.start.if") /\ ret[Loop] = "true")

\* The loop has read a later event of the start file: lock.Start() has
\* returned false, with Monitor() running.
C36_Witness ==
    /\ At(Loop, "Cli.start.if") /\ ret[Loop] = "false"
    /\ Monitors = 1

\* C37: `stop` does nothing and returns nil when the flag file does not
\* exist; otherwise it removes the file, and when the removal of the
\* existing file fails it returns the error.
C37_StopReturnsRemoveError ==
    [][\A p \in Callers :
         /\ At(p, "Stop.Run") /\ Stat = "notexist" /\ stack'[p] # stack[p]
               => /\ UNCHANGED fileExists
                  /\ last'[p] = "Stop.Run" /\ ret'[p] = "nil"
         /\ At(p, "Stop.remove") /\ stack'[p] # stack[p]
               => /\ last'[p] = "Stop.Run"
                  /\ fileExists /\ fileExists' => ret'[p] # "nil"]_vars

====
